---------------------------- MODULE Spec2Model ----------------------------
(***************************************************************************)
(* Model of the Sudoku engine (engine.js) and of the read its UI caller    *)
(* (script.js, loadPuzzle) makes of generatePuzzle's result.               *)
(*                                                                         *)
(* The engine is written for the 9x9 board cut into 3x3 boxes.  The model  *)
(* is the same code with the box as a parameter, box = [rows, cols]: the   *)
(* board has box.rows * box.cols rows, columns and digits, and every 3 of  *)
(* the source is the box's height, its width or the number of boxes side   *)
(* by side, according to its role.  With box = [3, 3] every definition is  *)
(* the source's, number for number.  The boards TLC can exhaust are        *)
(* smaller: the generator and the reducer run on the 3x3 board with 1x3    *)
(* boxes, the placement check and the solver on the 4x4 board with 2x2     *)
(* boxes.                                                                  *)
(*                                                                         *)
(* Arrays are functions over 0..n-1, as in the source.                     *)
(***************************************************************************)
EXTENDS Integers, FiniteSets, Sequences, TLC

\* Box of the board the generator and the reducer are run on.
GenBoxRows == 1
GenBoxCols == 3

\* Side of the box of the board the placement check and the solver are run on.
SqBox == 2

\* Filled cells of the boards the placement check is called on.
MaxFilled == 2

\* Boards the solver is called on: those with at most MaxClues filled cells
\* (MaxSqClues on the board with square boxes, where exhausting the search
\* costs more), and the complete legal boards with at most MaxHoles cells
\* blanked.
MaxClues == 3
MaxSqClues == 2
MaxHoles == 1

\* How far past the number of cells the blank count asked of the reducer goes.
MaxOverTarget == 1

\* Boards the reducer is called on besides the complete legal ones: those
\* with at most MaxReduceClues filled cells, whatever the digits; and the
\* blank counts asked of it on them.
MaxReduceClues == 3
MaxReduceBlanks == 2

\* How far outside the board the indices given to the placement check go.
MaxOutside == 1

\* engine.js:5-6 and the blank counts of engine.js:233-239.
SourceROWS == 9
SourceCOLS == 9
HardBlanks == 50
MediumBlanks == 40
EasyBlanks == 30

VARIABLES
  box,        \* the box the board is cut into: [rows, cols]
  pc,         \* where the program is
  difficulty, \* generatePuzzle's argument
  puzzle,     \* the board createPuzzle builds and generatePuzzle returns
  values,     \* the one candidate array createPuzzle passes down the recursion
  stack,      \* fillCell's activations, innermost last: [row, col, i]
  filled,     \* what the outermost fillCell returned (read once pc is past "fill")
  attempts,   \* removeCellsWithGuarantee's counter
  result,     \* the value the call returned
  current,    \* script.js: currentPuzzle and currentSolution after loadPuzzle
  input       \* the arguments of a call made on its own, as they were at the call

vars == <<box, pc, difficulty, puzzle, values, stack, filled, attempts, result,
          current, input>>

\* engine.js:5-6
ROWS == box.rows * box.cols
COLS == box.rows * box.cols

\* Boxes side by side in a band of the board (the 3 of engine.js:50, 56, 57).
BoxesPerBand == COLS \div box.cols

\* engine.js:13-20
createBlankPuzzle == [r \in 0 .. (ROWS - 1) |-> [c \in 0 .. (COLS - 1) |-> 0]]

\* puzzle[row][col] = v
SetCell(board, row, col, v) ==
  [board EXCEPT ![row] = [@ EXCEPT ![col] = v]]

\* puzzle[row][col] === num (engine.js:25, 35, 61).  An index past the end
\* of a row reads undefined, which is no digit.  A row index outside the
\* board reads undefined in place of the row, and the read of its cell throws:
\* those reads are told apart by checkValueOutcome below, and are FALSE here.
CellIs(board, row, col, num) ==
  /\ row \in DOMAIN board
  /\ col \in DOMAIN board[row]
  /\ board[row][col] = num

\* a % b of JavaScript, b > 0: the remainder has the sign of a.
JsRem(a, b) == IF a >= 0 THEN a % b ELSE 0 - ((0 - a) % b)

\* engine.js:23-30
checkRow(row, num, board) ==
  \A c \in 0 .. (COLS - 1) : ~CellIs(board, row, c, num)

\* engine.js:33-40
checkCol(col, num, board) ==
  \A r \in 0 .. (ROWS - 1) : ~CellIs(board, r, col, num)

\* engine.js:43-51
getBox(row, col) ==
  LET boxRow == row \div box.rows
      boxCol == col \div box.cols
  IN  boxRow * BoxesPerBand + boxCol + 1

\* checkBox with the column of the box taken by division, as its row is.
checkBoxColumnByDivision(bx, num, board) ==
  LET boxRowIndex == ((bx - 1) \div BoxesPerBand) * box.rows
      boxColIndex == ((bx - 1) \div BoxesPerBand) * box.cols
  IN  \A i \in 0 .. (box.rows - 1) : \A j \in 0 .. (box.cols - 1) :
        ~CellIs(board, boxRowIndex + i, boxColIndex + j, num)

\* engine.js:54-67
checkBox(bx, num, board) ==
  LET boxRowIndex == ((bx - 1) \div BoxesPerBand) * box.rows
      boxColIndex == JsRem(bx - 1, BoxesPerBand) * box.cols
  IN  \A i \in 0 .. (box.rows - 1) : \A j \in 0 .. (box.cols - 1) :
        ~CellIs(board, boxRowIndex + i, boxColIndex + j, num)

\* checkValue without the test of the column.
checkValueWithoutColumn(num, row, col, board) ==
  IF ~checkRow(row, num, board) THEN FALSE
  ELSE checkBox(getBox(row, col), num, board)

\* engine.js:70-78
checkValue(num, row, col, board) ==
  IF ~checkRow(row, num, board) THEN FALSE
  ELSE IF ~checkCol(col, num, board) THEN FALSE
  ELSE checkBox(getBox(row, col), num, board)

\* What a call returns or throws, as its caller sees it.
BooleanValue(b) == [tag |-> "boolean", val |-> b]
ThrowValue(name) == [tag |-> "throw", name |-> name]

\* engine.js:58-61: checkBox reads puzzle[boxRowIndex + i] row after row; the
\* read of a cell of a row that is not there throws, unless an earlier row
\* of the box has already made it return false.
checkBoxThrows(bx, num, board) ==
  LET boxRowIndex == ((bx - 1) \div BoxesPerBand) * box.rows
      boxColIndex == JsRem(bx - 1, BoxesPerBand) * box.cols
  IN  \E i \in 0 .. (box.rows - 1) :
        /\ (boxRowIndex + i) \notin DOMAIN board
        /\ \A k \in 0 .. (i - 1) : \A j \in 0 .. (box.cols - 1) :
             ~CellIs(board, boxRowIndex + k, boxColIndex + j, num)

\* engine.js:70-78 with the reads that throw: checkRow's first read throws
\* when the row is not there (engine.js:25); checkCol reads the rows 0..ROWS-1
\* only; checkBox throws as above.  There is no test of row or col in the
\* source, and no catch.
checkValueOutcome(num, row, col, board) ==
  IF row \notin DOMAIN board THEN ThrowValue("TypeError")
  ELSE IF ~checkRow(row, num, board) THEN BooleanValue(FALSE)
  ELSE IF ~checkCol(col, num, board) THEN BooleanValue(FALSE)
  ELSE IF checkBoxThrows(getBox(row, col), num, board) THEN ThrowValue("TypeError")
  ELSE BooleanValue(checkBox(getBox(row, col), num, board))

\* engine.js:86-88: the swap of one pass of shuffleValues' loop.
SwapSpots(vals, swapSpot1, swapSpot2) ==
  [vals EXCEPT ![swapSpot1] = vals[swapSpot2],
               ![swapSpot2] = vals[swapSpot1]]

\* engine.js:82-89: the arrays k passes of the loop can leave, the two spots
\* of each pass being any two outcomes of Math.random (engine.js:83-84).
RECURSIVE ShuffleRounds(_, _)
ShuffleRounds(vs, k) ==
  IF k = 0 THEN vs
  ELSE ShuffleRounds(UNION {{SwapSpots(v, a, b) : a \in DOMAIN v, b \in DOMAIN v} :
                              v \in vs},
                     k - 1)

\* engine.js:81-90: every array shuffleValues can leave in place of vals.
shuffleValues(vals) == ShuffleRounds({vals}, Cardinality(DOMAIN vals))

\* engine.js:133
InitialValues == [i \in 0 .. (ROWS - 1) |-> i + 1]

\* engine.js:99-105 and 166-171: the cell after (row, col), row by row.
NextRow(row, col) == IF col + 1 = COLS THEN row + 1 ELSE row
NextCol(row, col) == IF col + 1 = COLS THEN 0 ELSE col + 1

-----------------------------------------------------------------------------
(***************************************************************************)
(* The solver.  It writes into the board it is given, so a board is an     *)
(* object here as it is in JavaScript: an array of references to row       *)
(* arrays.  A heap maps the references 1..k to the rows; a board object    *)
(* maps each row index to the reference of its row.                        *)
(***************************************************************************)

\* The rows of `board` as a heap of their own, and the object made of them.
HeapOf(board) == [x \in 1 .. ROWS |-> board[x - 1]]
ObjectOf(board) == [r \in 0 .. (ROWS - 1) |-> r + 1]

\* The 2D array an object denotes in a heap.
Deref(heap, obj) == [r \in DOMAIN obj |-> heap[obj[r]]]

\* obj[row][col] = v
Write(heap, obj, row, col, v) ==
  [heap EXCEPT ![obj[row]] = [@ EXCEPT ![col] = v]]

\* clonePuzzle that copies the outer array only (puzzle.slice()): the rows are
\* shared with the original.
clonePuzzleSharingRows(heap, obj) == [heap |-> heap, obj |-> obj]

\* engine.js:144-146: puzzle.map(row => row.slice()) makes a new array of new
\* rows.
clonePuzzle(heap, obj) ==
  LET k == Cardinality(DOMAIN heap)
      n == Cardinality(DOMAIN obj)
  IN  [heap |-> [x \in 1 .. (k + n) |-> IF x <= k THEN heap[x] ELSE heap[obj[x - k - 1]]],
       obj  |-> [r \in DOMAIN obj |-> k + 1 + r]]

\* engine.js:160-192.  solveCell returns its boolean; the heap it leaves is
\* returned with it.  SolveLoop is the loop of lines 178-188 from `num` on.
RECURSIVE solveCell(_, _, _, _)
RECURSIVE SolveLoop(_, _, _, _, _)
\* SolveLoop that gives up at the first digit whose search below fails.
SolveLoopWithoutRetry(num, row, col, heap, obj) ==
  IF num > ROWS THEN [ok |-> FALSE, heap |-> heap]
  ELSE IF checkValue(num, row, col, Deref(heap, obj))
         THEN LET below == solveCell(NextRow(row, col), NextCol(row, col),
                                     Write(heap, obj, row, col, num), obj)
              IN  IF below.ok THEN below
                  ELSE [ok |-> FALSE, heap |-> Write(below.heap, obj, row, col, 0)]
         ELSE SolveLoop(num + 1, row, col, heap, obj)

\* SolveLoop that stops before the last digit (num < 9 for num <= 9).
SolveLoopSkippingLast(num, row, col, heap, obj) ==
  IF num >= ROWS THEN [ok |-> FALSE, heap |-> heap]
  ELSE IF checkValue(num, row, col, Deref(heap, obj))
         THEN LET below == solveCell(NextRow(row, col), NextCol(row, col),
                                     Write(heap, obj, row, col, num), obj)
              IN  IF below.ok THEN below
                  ELSE SolveLoop(num + 1, row, col,
                                 Write(below.heap, obj, row, col, 0), obj)
         ELSE SolveLoop(num + 1, row, col, heap, obj)

solveCell(row, col, heap, obj) ==
  IF row = ROWS THEN [ok |-> TRUE, heap |-> heap]
  ELSE IF heap[obj[row]][col] # 0
         THEN solveCell(NextRow(row, col), NextCol(row, col), heap, obj)
         ELSE SolveLoop(1, row, col, heap, obj)

SolveLoop(num, row, col, heap, obj) ==
  IF num > ROWS THEN [ok |-> FALSE, heap |-> heap]
  ELSE IF checkValue(num, row, col, Deref(heap, obj))
         THEN LET below == solveCell(NextRow(row, col), NextCol(row, col),
                                     Write(heap, obj, row, col, num), obj)
              IN  IF below.ok THEN below
                  ELSE SolveLoop(num + 1, row, col,
                                 Write(below.heap, obj, row, col, 0), obj)
         ELSE SolveLoop(num + 1, row, col, heap, obj)

\* engine.js:155-157
solve(heap, obj) == solveCell(0, 0, heap, obj)

\* engine.js:160-192 again, for what it writes on the way: the heaps left by
\* each puzzle[row][col] = num (line 180) and each puzzle[row][col] = 0
\* (line 185) of the call solveCell(row, col, puzzle) and of the calls below
\* it.
RECURSIVE solveCellWrites(_, _, _, _)
RECURSIVE SolveLoopWrites(_, _, _, _, _)
solveCellWrites(row, col, heap, obj) ==
  IF row = ROWS THEN {}
  ELSE IF heap[obj[row]][col] # 0
         THEN solveCellWrites(NextRow(row, col), NextCol(row, col), heap, obj)
         ELSE SolveLoopWrites(1, row, col, heap, obj)

SolveLoopWrites(num, row, col, heap, obj) ==
  IF num > ROWS THEN {}
  ELSE IF checkValue(num, row, col, Deref(heap, obj))
         THEN LET placed == Write(heap, obj, row, col, num)
                  below == solveCell(NextRow(row, col), NextCol(row, col), placed, obj)
                  seen == {placed} \cup solveCellWrites(NextRow(row, col),
                                                        NextCol(row, col), placed, obj)
                  unplaced == Write(below.heap, obj, row, col, 0)
              IN  IF below.ok THEN seen
                  ELSE seen \cup {unplaced}
                         \cup SolveLoopWrites(num + 1, row, col, unplaced, obj)
         ELSE SolveLoopWrites(num + 1, row, col, heap, obj)

\* isSolvable that solves the board it is given, without the copy.
isSolvableInPlace(heap, obj) == solve(heap, obj)

\* engine.js:149-152
isSolvable(heap, obj) ==
  LET copy == clonePuzzle(heap, obj)
  IN  solve(copy.heap, copy.obj)

-----------------------------------------------------------------------------
(***************************************************************************)
(* generatePuzzle, step by step.                                           *)
(***************************************************************************)

Top == stack[Len(stack)]
Pop == SubSeq(stack, 1, Len(stack) - 1)

\* engine.js:110-113: the loop of fillCell runs on, from index i, over the
\* digits checkValue rejects (nothing is written for them); the result is the
\* index of the next digit that will be placed, or values.length.
RECURSIVE NextCandidate(_, _, _, _, _)
NextCandidate(i, row, col, board, vals) ==
  IF i >= Cardinality(DOMAIN vals) THEN Cardinality(DOMAIN vals)
  ELSE IF checkValue(vals[i], row, col, board) THEN i
  ELSE NextCandidate(i + 1, row, col, board, vals)

\* engine.js:94-113: fillCell is entered at a cell of the board: it shuffles
\* the shared array and starts its loop.
EnterCell(row, col, board, stk) ==
  \E v \in shuffleValues(values) :
    /\ values' = v
    /\ stack' = Append(stk, [row |-> row, col |-> col,
                             i |-> NextCandidate(0, row, col, board, v)])

\* engine.js:132-135: createPuzzle makes the array and the blank board and
\* calls fillCell(0, 0, puzzle, values).
CreatePuzzle ==
  /\ pc = "start"
  /\ pc' = "fill"
  /\ puzzle' = createBlankPuzzle
  /\ EnterCell(0, 0, createBlankPuzzle, <<>>)
  /\ UNCHANGED <<box, difficulty, filled, attempts, result, current, input>>

\* engine.js:113-119: the digit at the loop's index passes checkValue: it is
\* placed and fillCell is called for the next cell.  Past the last row that
\* call returns true at once (engine.js:94-97), and so does every caller.
FillPlace ==
  /\ pc = "fill" /\ stack # <<>> /\ Top.i < Cardinality(DOMAIN values)
  /\ LET row == Top.row
         col == Top.col
         num == values[Top.i]
         placed == SetCell(puzzle, row, col, num)
     IN  /\ checkValue(num, row, col, puzzle)
         /\ puzzle' = placed
         /\ IF NextRow(row, col) = ROWS
              THEN /\ stack' = <<>>
                   /\ filled' = TRUE
                   /\ pc' = "filled"
                   /\ values' = <<>>
              ELSE /\ EnterCell(NextRow(row, col), NextCol(row, col), placed, stack)
                   /\ UNCHANGED <<filled, pc>>
  /\ UNCHANGED <<box, difficulty, attempts, result, current, input>>

\* engine.js:127-128, then 118-125 in the caller: the loop is over, fillCell
\* returns false; its caller blanks its own cell and goes on with its loop, on
\* the array as the calls below left it.  The outermost call returns to
\* createPuzzle, which returns the board whatever fillCell returned
\* (engine.js:135-136); its array `values` is then out of reach.
FillFail ==
  /\ pc = "fill" /\ stack # <<>> /\ Top.i >= Cardinality(DOMAIN values)
  /\ IF Len(stack) = 1
       THEN /\ stack' = <<>>
            /\ filled' = FALSE
            /\ pc' = "filled"
            /\ values' = <<>>
            /\ UNCHANGED puzzle
       ELSE LET caller == stack[Len(stack) - 1]
                blanked == SetCell(puzzle, caller.row, caller.col, 0)
            IN  /\ puzzle' = blanked
                /\ stack' = [Pop EXCEPT ![Len(stack) - 1] =
                               [@ EXCEPT !.i = NextCandidate(caller.i + 1, caller.row,
                                                             caller.col, blanked, values)]]
                /\ UNCHANGED <<filled, pc, values>>
  /\ UNCHANGED <<box, difficulty, attempts, result, current, input>>

\* The labels the UI passes ("e", "m", "h") and one it does not.
Labels == {"e", "m", "h", "x"}

\* A blank count of the source's table on the board of the model: the same
\* share of the cells (the count itself on the 9x9 board).
BlanksOnBoard(n) == (n * ROWS * COLS) \div (SourceROWS * SourceCOLS)

\* engine.js:232-239
BlanksFor(d) ==
  IF d = "h" THEN BlanksOnBoard(HardBlanks)
  ELSE IF d = "m" THEN BlanksOnBoard(MediumBlanks)
  ELSE BlanksOnBoard(EasyBlanks)

\* engine.js:229-242, 200: createPuzzle has returned; generatePuzzle reads its
\* argument for the first time, picks the blank count and calls
\* removeCellsWithGuarantee, which starts its counter.
ChooseBlanks ==
  /\ pc = "filled"
  /\ \E d \in Labels :
       /\ difficulty' = d
       /\ attempts' = BlanksFor(d)
  /\ pc' = "remove"
  /\ UNCHANGED <<box, puzzle, values, stack, filled, result, current, input>>

\* RemovePick with a pick of an empty cell counted as an attempt.
RemovePickCountingEmpty(row, col) ==
  /\ pc = "remove" /\ attempts > 0
  /\ IF puzzle[row][col] = 0
       THEN /\ attempts' = attempts - 1
            /\ UNCHANGED puzzle
       ELSE /\ puzzle' = SetCell(puzzle, row, col, 0)
            /\ attempts' = attempts - 1
  /\ UNCHANGED <<box, pc, difficulty, values, stack, filled, result, current, input>>

\* RemovePick with the counter decremented after the restore as well.
RemovePickCountingReverted(row, col) ==
  /\ pc = "remove" /\ attempts > 0
  /\ IF puzzle[row][col] = 0
       THEN UNCHANGED <<puzzle, attempts>>
       ELSE LET backup == puzzle[row][col]
                blanked == SetCell(puzzle, row, col, 0)
                obj == ObjectOf(blanked)
                test == isSolvable(HeapOf(blanked), obj)
                after == Deref(test.heap, obj)
            IN  /\ puzzle' = IF ~test.ok THEN SetCell(after, row, col, backup) ELSE after
                /\ attempts' = attempts - 1
  /\ UNCHANGED <<box, pc, difficulty, values, stack, filled, result, current, input>>

\* engine.js:202-220: one pass of the loop of removeCellsWithGuarantee, row
\* and col being the two outcomes of Math.random.  The board after the pass
\* is the board as isSolvable left it in the heap.
RemovePick(row, col) ==
  /\ pc = "remove" /\ attempts > 0
  /\ IF puzzle[row][col] = 0
       THEN UNCHANGED <<puzzle, attempts>>
       ELSE LET backup == puzzle[row][col]
                blanked == SetCell(puzzle, row, col, 0)
                obj == ObjectOf(blanked)
                test == isSolvable(HeapOf(blanked), obj)
                after == Deref(test.heap, obj)
            IN  IF ~test.ok
                  THEN /\ puzzle' = SetCell(after, row, col, backup)
                       /\ UNCHANGED attempts
                  ELSE /\ puzzle' = after
                       /\ attempts' = attempts - 1
  /\ UNCHANGED <<box, pc, difficulty, values, stack, filled, result, current, input>>

\* JavaScript values that cross from engine.js to script.js.
Null == [tag |-> "null"]
Undefined == [tag |-> "undefined"]
ArrayValue(board) == [tag |-> "array", rows |-> board]

\* v.name for a property name that is not an array index: an array has no
\* such property.
GetProp(v, name) ==
  IF v.tag = "object" /\ name \in DOMAIN v.props THEN v.props[name]
  ELSE Undefined

\* engine.js:202, 221, 245: the loop is over; generatePuzzle returns the board.
GenerateReturn ==
  /\ pc = "remove" /\ attempts = 0 /\ input.call = "generatePuzzle"
  /\ result' = ArrayValue(puzzle)
  /\ pc' = "returned"
  /\ UNCHANGED <<box, difficulty, puzzle, values, stack, filled, attempts, current, input>>

\* script.js:64-75: loadPuzzle reads the two properties of the result, keeps
\* them, and hands the puzzle to fillBoard, whose first read puzzle[row][col]
\* (script.js:28) throws on undefined; the catch of line 73 logs the failure.
LoadPuzzle ==
  /\ pc = "returned"
  /\ LET puz == GetProp(result, "puzzle")
         sol == GetProp(result, "solution")
     IN  /\ current' = [puzzle |-> puz, solution |-> sol]
         /\ pc' = IF puz.tag = "array" THEN "loaded" ELSE "loadFailed"
  /\ UNCHANGED <<box, difficulty, puzzle, values, stack, filled, attempts, result, input>>

Init ==
  /\ box = [rows |-> GenBoxRows, cols |-> GenBoxCols]
  /\ pc = "start"
  /\ difficulty = "none"
  /\ puzzle = createBlankPuzzle
  /\ values = InitialValues
  /\ stack = <<>>
  /\ filled = FALSE
  /\ attempts = 0
  /\ result = Undefined
  /\ current = [puzzle |-> Null, solution |-> Null]
  /\ input = [call |-> "generatePuzzle"]

Next ==
  \/ CreatePuzzle
  \/ FillPlace
  \/ FillFail
  \/ ChooseBlanks
  \/ \E row \in 0 .. (ROWS - 1), col \in 0 .. (COLS - 1) : RemovePick(row, col)
  \/ GenerateReturn
  \/ LoadPuzzle

Spec == Init /\ [][Next]_vars

-----------------------------------------------------------------------------
(***************************************************************************)
(* Boards as the specification speaks of them.                             *)
(***************************************************************************)

\* The coordinates of the board cut into boxes bx, and its rows, columns and
\* boxes as sets of coordinates.  A box is the set of cells with the same
\* row \div bx.rows and the same col \div bx.cols.
SideFor(bx) == bx.rows * bx.cols
CoordsFor(bx) == (0 .. (SideFor(bx) - 1)) \X (0 .. (SideFor(bx) - 1))
UnitsFor(bx) ==
  {{rc \in CoordsFor(bx) : rc[1] = r} : r \in 0 .. (SideFor(bx) - 1)}
  \cup {{rc \in CoordsFor(bx) : rc[2] = c} : c \in 0 .. (SideFor(bx) - 1)}
  \cup {{rc \in CoordsFor(bx) : rc[1] \div bx.rows = p[1] \div bx.rows
                                /\ rc[2] \div bx.cols = p[2] \div bx.cols} :
          p \in CoordsFor(bx)}

\* No row, column or box holds a digit twice.
NoDuplicateFor(bx, board) ==
  \A u \in UnitsFor(bx) : \A a \in u, b \in u :
    (a # b /\ board[a[1]][a[2]] # 0) => board[a[1]][a[2]] # board[b[1]][b[2]]

\* Complete and legal: every row, column and box holds every digit (and so,
\* having as many cells as there are digits, each exactly once).
CompleteFor(bx, board) ==
  /\ board \in [0 .. (SideFor(bx) - 1) -> [0 .. (SideFor(bx) - 1) -> 1 .. SideFor(bx)]]
  /\ \A u \in UnitsFor(bx) : {board[rc[1]][rc[2]] : rc \in u} = 1 .. SideFor(bx)

\* The rows a complete board can have.
RowsFor(bx) ==
  {f \in [0 .. (SideFor(bx) - 1) -> 1 .. SideFor(bx)] :
     \A i \in DOMAIN f, j \in DOMAIN f : i # j => f[i] # f[j]}

\* The sequences of k rows, each one of RowsFor(bx), in which no column and
\* no box holds a digit twice.
RECURSIVE LegalRowsFor(_, _)
LegalRowsFor(bx, k) ==
  IF k = 0 THEN {<<>>}
  ELSE LET Fits(rows, f) ==
             \A r \in 1 .. Len(rows) : \A c \in DOMAIN f, d \in DOMAIN f :
               (c = d \/ ((r - 1) \div bx.rows = Len(rows) \div bx.rows
                          /\ c \div bx.cols = d \div bx.cols))
                 => rows[r][c] # f[d]
           shorter == LegalRowsFor(bx, k - 1)
           all == RowsFor(bx)
       IN  UNION {{Append(rows, f) : f \in {g \in all : Fits(rows, g)}} : rows \in shorter}

\* Every complete legal board.
SolutionsFor(bx) ==
  {b \in {[r \in 0 .. (SideFor(bx) - 1) |-> rows[r + 1]] :
            rows \in LegalRowsFor(bx, SideFor(bx))} : CompleteFor(bx, b)}

GenSolutions == SolutionsFor([rows |-> GenBoxRows, cols |-> GenBoxCols])
SqSolutions == SolutionsFor([rows |-> SqBox, cols |-> SqBox])

\* The same, for the box of the state.
Coords == CoordsFor(box)
IsGrid(board, cells) ==
  board \in [0 .. (ROWS - 1) -> [0 .. (COLS - 1) -> cells]]
NoDuplicate(board) == NoDuplicateFor(box, board)
CompleteBoard(board) == CompleteFor(box, board)
Solutions ==
  IF box = [rows |-> SqBox, cols |-> SqBox] THEN SqSolutions ELSE GenSolutions
CountBlanks(board) == Cardinality({rc \in Coords : board[rc[1]][rc[2]] = 0})

\* The complete legal boards that agree with `board` on its filled cells.
Completions(board) ==
  {sol \in Solutions :
     \A rc \in Coords : board[rc[1]][rc[2]] \in {0, sol[rc[1]][rc[2]]}}

-----------------------------------------------------------------------------
(***************************************************************************)
(* The functions of the engine called on their own, on arguments drawn     *)
(* from bounded sets.                                                      *)
(***************************************************************************)

\* The boards with at most k filled cells, whatever the digits in them.
RECURSIVE BoardsWithAtMost(_, _)
BoardsWithAtMost(bx, k) ==
  IF k = 0 THEN {[r \in 0 .. (SideFor(bx) - 1) |-> [c \in 0 .. (SideFor(bx) - 1) |-> 0]]}
  ELSE LET fewer == BoardsWithAtMost(bx, k - 1)
       IN  fewer \cup UNION {{SetCell(b, rc[1], rc[2], d) :
                                rc \in CoordsFor(bx), d \in 1 .. SideFor(bx)} : b \in fewer}

\* The boards of `boards` with at most k cells blanked.
RECURSIVE BlankedAtMost(_, _, _)
BlankedAtMost(bx, boards, k) ==
  IF k = 0 THEN boards
  ELSE LET fewer == BlankedAtMost(bx, boards, k - 1)
       IN  fewer \cup UNION {{SetCell(b, rc[1], rc[2], 0) : rc \in CoordsFor(bx)} : b \in fewer}

Idle(call, bx, board) ==
  /\ box = bx
  /\ pc = call
  /\ difficulty = "none"
  /\ puzzle = board
  /\ values = <<>>
  /\ stack = <<>>
  /\ filled = FALSE
  /\ result = Undefined
  /\ current = [puzzle |-> Null, solution |-> Null]

\* checkValue (engine.js:70-78) called on a board.
CheckInit ==
  /\ \E board \in BoardsWithAtMost([rows |-> SqBox, cols |-> SqBox], MaxFilled) :
       Idle("checkValue", [rows |-> SqBox, cols |-> SqBox], board)
  /\ attempts = 0
  /\ input = [call |-> "checkValue"]

CheckValueCall(num, row, col) ==
  /\ pc = "checkValue"
  /\ input' = [call |-> "checkValue", num |-> num, row |-> row, col |-> col,
               puzzle |-> puzzle]
  /\ result' = checkValueOutcome(num, row, col, puzzle)
  /\ pc' = "checked"
  /\ UNCHANGED <<box, difficulty, puzzle, values, stack, filled, attempts, current>>

CheckNext ==
  \E num \in 1 .. ROWS, row \in 0 .. (ROWS - 1), col \in 0 .. (COLS - 1) :
    CheckValueCall(num, row, col)

CheckSpec == CheckInit /\ [][CheckNext]_vars

\* checkValue called with a row or a column that may lie up to MaxOutside
\* outside the board, on either side.
DimNext ==
  \E num \in 1 .. ROWS, row \in (0 - MaxOutside) .. (ROWS - 1 + MaxOutside),
     col \in (0 - MaxOutside) .. (COLS - 1 + MaxOutside) :
    CheckValueCall(num, row, col)

DimSpec == CheckInit /\ [][DimNext]_vars

\* isSolvable (engine.js:149-152) called on a board; the caller's board after
\* the call is what the heap then holds for it.
SolveInit ==
  /\ \/ \E board \in BoardsWithAtMost([rows |-> SqBox, cols |-> SqBox], MaxSqClues)
                    \cup BlankedAtMost([rows |-> SqBox, cols |-> SqBox],
                                       SqSolutions, MaxHoles) :
          Idle("isSolvable", [rows |-> SqBox, cols |-> SqBox], board)
     \/ \E board \in BoardsWithAtMost([rows |-> GenBoxRows, cols |-> GenBoxCols], MaxClues)
                    \cup BlankedAtMost([rows |-> GenBoxRows, cols |-> GenBoxCols],
                                       GenSolutions, MaxHoles) :
          Idle("isSolvable", [rows |-> GenBoxRows, cols |-> GenBoxCols], board)
  /\ attempts = 0
  /\ input = [call |-> "isSolvable"]

IsSolvableCall ==
  /\ pc = "isSolvable"
  /\ LET obj == ObjectOf(puzzle)
         test == isSolvable(HeapOf(puzzle), obj)
     IN  /\ result' = BooleanValue(test.ok)
         /\ puzzle' = Deref(test.heap, obj)
  /\ input' = [call |-> "isSolvable", puzzle |-> puzzle]
  /\ pc' = "solved"
  /\ UNCHANGED <<box, difficulty, values, stack, filled, attempts, current>>

SolveNext == IsSolvableCall

SolveSpec == SolveInit /\ [][SolveNext]_vars

\* removeCellsWithGuarantee (engine.js:199-221) called on a complete legal
\* board with a blank count.
ReduceInit ==
  /\ \E board \in GenSolutions :
       /\ Idle("remove", [rows |-> GenBoxRows, cols |-> GenBoxCols], board)
       /\ \E blanks \in 0 .. (Cardinality(CoordsFor(box)) + MaxOverTarget) :
            /\ attempts = blanks
            /\ input = [call |-> "removeCellsWithGuarantee", puzzle |-> board,
                        blanks |-> blanks]

\* RemoveReturn with the loop left one attempt early (attempts > 1).
RemoveReturnOneEarly ==
  /\ pc = "remove" /\ attempts <= 1 /\ input.call = "removeCellsWithGuarantee"
  /\ pc' = "removed"
  /\ UNCHANGED <<box, difficulty, puzzle, values, stack, filled, attempts, result,
                 current, input>>

\* engine.js:202, 221: the loop is over; the function returns (no value).
RemoveReturn ==
  /\ pc = "remove" /\ attempts = 0 /\ input.call = "removeCellsWithGuarantee"
  /\ pc' = "removed"
  /\ UNCHANGED <<box, difficulty, puzzle, values, stack, filled, attempts, result,
                 current, input>>

ReduceNext ==
  \/ \E row \in 0 .. (ROWS - 1), col \in 0 .. (COLS - 1) : RemovePick(row, col)
  \/ RemoveReturn

ReduceSpec == ReduceInit /\ [][ReduceNext]_vars

\* removeCellsWithGuarantee called on a board that need not be complete nor
\* legal (the function tests neither).
ReduceAnyInit ==
  /\ \E board \in GenSolutions
                  \cup BoardsWithAtMost([rows |-> GenBoxRows, cols |-> GenBoxCols],
                                        MaxReduceClues) :
       /\ Idle("remove", [rows |-> GenBoxRows, cols |-> GenBoxCols], board)
       /\ \E blanks \in 0 .. MaxReduceBlanks :
            /\ attempts = blanks
            /\ input = [call |-> "removeCellsWithGuarantee", puzzle |-> board,
                        blanks |-> blanks]

ReduceAnySpec == ReduceAnyInit /\ [][ReduceNext]_vars

-----------------------------------------------------------------------------
(***************************************************************************)
(* The claims.                                                             *)
(***************************************************************************)

\* C1 (as claimed): once loadPuzzle has read result.puzzle and
\* result.solution, the first is a grid with cells in 0..9 and the second a
\* grid with cells in 1..9.
C1_CallerReadsPair ==
  pc \in {"loaded", "loadFailed"} =>
    /\ current.puzzle.tag = "array" /\ IsGrid(current.puzzle.rows, 0 .. ROWS)
    /\ current.solution.tag = "array" /\ IsGrid(current.solution.rows, 1 .. ROWS)

\* C2 (as claimed): the board createPuzzle returns is complete and legal.
C2_GeneratedBoardComplete ==
  pc = "filled" => CompleteBoard(puzzle)

\* C3 (as claimed): the outermost fillCell, called on the blank board, returns
\* true.
C3_TopLevelFillSucceeds ==
  pc = "filled" => filled = TRUE

\* C10: the puzzle generatePuzzle returns has the blank count of its label:
\* that of 50 for "h", of 40 for "m", of 30 for "e" and for any other label.
C10_BlankCountOfLabel ==
  pc = "returned" =>
    /\ result.tag = "array"
    /\ CountBlanks(result.rows) =
         CASE difficulty = "h" -> BlanksOnBoard(50)
           [] difficulty = "m" -> BlanksOnBoard(40)
           [] OTHER -> BlanksOnBoard(30)

C10_Witness ==
  /\ pc = "returned"
  /\ difficulty = "x"
  /\ CountBlanks(result.rows) = BlanksOnBoard(30)
  /\ CountBlanks(result.rows) > 0

\* The cells of `board` in the row, the column or the box of (row, col).
Peers(row, col) ==
  {rc \in Coords : \/ rc[1] = row
                   \/ rc[2] = col
                   \/ /\ rc[1] \div box.rows = row \div box.rows
                      /\ rc[2] \div box.cols = col \div box.cols}

\* C4: checkValue returns false exactly when the digit is already in the row,
\* the column or the box of the cell, and the board is as it was.
C4_PlacementCheck ==
  pc = "checked" =>
    /\ result.val = ~(\E rc \in Peers(input.row, input.col) :
                        input.puzzle[rc[1]][rc[2]] = input.num)
    /\ puzzle = input.puzzle

\* checkValue has refused a digit that is neither in the row nor in the column
\* of the cell: it is in its box.
C4_Witness ==
  /\ pc = "checked"
  /\ result.val = FALSE
  /\ \A rc \in Coords :
       (rc[1] = input.row \/ rc[2] = input.col) => input.puzzle[rc[1]][rc[2]] # input.num

\* C5: on a board without duplicates isSolvable returns true exactly when
\* some complete legal board agrees with it on its filled cells.
C5_SolvableIffCompletion ==
  (pc = "solved" /\ NoDuplicate(input.puzzle)) =>
    (result.val <=> Completions(input.puzzle) # {})

\* isSolvable has returned false on a board without duplicates.
C5_Witness ==
  /\ pc = "solved"
  /\ NoDuplicate(input.puzzle)
  /\ CountBlanks(input.puzzle) > 0
  /\ result.val = FALSE

\* C6: after isSolvable the caller's board is cell for cell what it was
\* before the call.
C6_CallerBoardUnchanged ==
  pc = "solved" => puzzle = input.puzzle

\* isSolvable has found a solution of a board with blanks, which the caller's
\* board still has.
C6_Witness ==
  /\ pc = "solved"
  /\ result.val = TRUE
  /\ CountBlanks(input.puzzle) > 0
  /\ CountBlanks(puzzle) = CountBlanks(input.puzzle)

\* C7 (as claimed): the puzzle the reducer returns has exactly one solution.
C7_ReturnedPuzzleUnique ==
  pc = "removed" => Cardinality(Completions(puzzle)) = 1

\* C8 (as claimed), in finite form: the reducer's loop never runs forever.
\* While the loop condition holds some pick is not skipped, so the loop is
\* never in a state that every pick leaves as it is.
C8_LoopCanAdvance ==
  (pc = "remove" /\ attempts > 0) =>
    \E row \in 0 .. (ROWS - 1), col \in 0 .. (COLS - 1) : puzzle[row][col] # 0

\* The filled cells whose removal the reducer would keep.
KeptIfPicked(board) ==
  {rc \in Coords :
     /\ board[rc[1]][rc[2]] # 0
     /\ LET blanked == SetCell(board, rc[1], rc[2], 0)
        IN  isSolvable(HeapOf(blanked), ObjectOf(blanked)).ok}

\* C9 (as claimed): when no removal can be kept any more, the reducer is at
\* its return, with the blanks it has made.
C9_ReturnsWhenNothingRemovable ==
  (pc = "remove" /\ KeptIfPicked(puzzle) = {}) => attempts = 0

\* C12 (as claimed, any error counting as the claimed one): checkValue given
\* a row or a column outside the board ends in an error, never in a boolean.
C12_OutsideIndexFails ==
  (pc = "checked" /\ (input.row \notin 0 .. (ROWS - 1) \/ input.col \notin 0 .. (COLS - 1)))
    => result.tag = "throw"

\* C11: in the reducer called on a complete legal board, the blanks made so
\* far and the attempts left add up to the count asked for (a pass takes one
\* from the counter exactly when it leaves one more blank), and at the return
\* the blanks are exactly the count asked for.
C11_ExactBlankCount ==
  /\ pc \in {"remove", "removed"} => CountBlanks(puzzle) + attempts = input.blanks
  /\ pc = "removed" => CountBlanks(puzzle) = input.blanks

\* The reducer has returned a board with every cell blanked, as asked.
C11_Witness ==
  /\ pc = "removed"
  /\ input.blanks = Cardinality(Coords)
  /\ CountBlanks(puzzle) = Cardinality(Coords)

\* C17: in the reducer started from a complete legal board, the test made
\* after blanking a filled cell succeeds for every filled cell, so no pass
\* takes the branch that restores the digit.
C17_RevertNeverTaken ==
  pc = "remove" => KeptIfPicked(puzzle) = {rc \in Coords : puzzle[rc[1]][rc[2]] # 0}

\* The loop is running on a board with several blanks and several digits.
C17_Witness ==
  /\ pc = "remove"
  /\ attempts > 0
  /\ CountBlanks(puzzle) >= 2
  /\ Cardinality(KeptIfPicked(puzzle)) >= 2

\* C15: a pass of the reducer's loop that changes a cell or the counter is
\* the removal of a filled cell whose test succeeds, with the counter
\* decremented; so a pass whose test fails, the digit restored, leaves every
\* cell and the counter as they were before it.
C15_RevertedPassIsNoOp ==
  [][(pc = "remove" /\ pc' = "remove") =>
       \E rc \in KeptIfPicked(puzzle) :
         /\ puzzle' = SetCell(puzzle, rc[1], rc[2], 0)
         /\ attempts' = attempts - 1]_vars

\* The loop is running on a board with a filled cell whose removal fails the
\* test.
C15_Witness ==
  /\ pc = "remove"
  /\ attempts > 0
  /\ \E rc \in Coords : puzzle[rc[1]][rc[2]] # 0 /\ rc \notin KeptIfPicked(puzzle)

\* C16: in every state of the reducer and at its return each cell is 0 or
\* what it was in the board the reducer was given; when that board is
\* complete and legal it is one of the solutions of the puzzle.
C16_OnlyDigitsToBlanks ==
  pc \in {"remove", "removed"} =>
    /\ \A rc \in Coords :
         puzzle[rc[1]][rc[2]] \in {0, input.puzzle[rc[1]][rc[2]]}
    /\ CompleteBoard(input.puzzle) => input.puzzle \in Completions(puzzle)

\* The reducer has returned a complete legal board with two cells blanked.
C16_Witness ==
  /\ pc = "removed"
  /\ CompleteBoard(input.puzzle)
  /\ CountBlanks(puzzle) = 2

\* C13 (as claimed): at one invocation of fillCell each digit is tried at
\* most once.  When a recursive fill has failed and the loop of the enclosing
\* cell goes on, the digit it places next is not the digit it has just
\* unplaced.
C13_DigitTriedOnce ==
  [][(pc = "fill" /\ pc' = "fill" /\ Len(stack') < Len(stack)) =>
       LET caller == stack[Len(stack) - 1]
           again == stack'[Len(stack')]
       IN  again.i < Cardinality(DOMAIN values') =>
             values'[again.i] # puzzle[caller.row][caller.col]]_vars

\* The boards the solver writes while isSolvable runs on `board`: its copy as
\* made, and the copy after each place and each unplace.
SolverBoards(board) ==
  LET copy == clonePuzzle(HeapOf(board), ObjectOf(board))
  IN  {Deref(h, copy.obj) :
         h \in {copy.heap} \cup solveCellWrites(0, 0, copy.heap, copy.obj)}

\* C14: no row, column or box holds a digit twice, in the board of every
\* state of the generation and of the reduction (after each place, unplace
\* and blank), and in every board the solver writes when the reducer tests a
\* removal.
C14_PartialBoardInvariant ==
  /\ NoDuplicate(puzzle)
  /\ (pc = "remove" /\ attempts > 0) =>
       \A rc \in Coords :
         puzzle[rc[1]][rc[2]] # 0 =>
           \A b \in SolverBoards(SetCell(puzzle, rc[1], rc[2], 0)) : NoDuplicate(b)

\* The reducer has made blanks and is about to test a removal for which the
\* solver places digits and unplaces some: it writes more boards than the
\* copy and one per blank.
C14_Witness ==
  /\ pc = "remove"
  /\ attempts > 0
  /\ CountBlanks(puzzle) >= 2
  /\ \E rc \in Coords :
       /\ puzzle[rc[1]][rc[2]] # 0
       /\ Cardinality(SolverBoards(SetCell(puzzle, rc[1], rc[2], 0)))
            > CountBlanks(puzzle) + 2

=============================================================================
